---- MODULE Spec2Model ----
(***************************************************************************)
(* Model of the abstract-paxos acceptor (src/apaxos/acceptor.rs) and of    *)
(* the partially ordered map it stores fragments in                        *)
(* (src/apaxos/greater_equal_map.rs).                                      *)
(*                                                                         *)
(* Spec     : one Acceptor driven by its three request handlers, for every *)
(*            reflexive Time relation with a bottom default element.       *)
(* Phase12Spec  : the same acceptor without revert requests.              *)
(* NoRevertSpec : the same acceptor without a successful revert, with the  *)
(*            accept times recorded.                                       *)
(* MapSpec  : one Map driven by insert / remove / maximals, for the modulo *)
(*            relation of the unit test and for every relation over a      *)
(*            three-key type.                                              *)
(***************************************************************************)
EXTENDS Integers, Sequences, FiniteSets, TLC

\* ---------------------------------------------------------------- bounds
MaxTime == 2
MaxProposal == 2
MaxVal == 2

\* ------------------------------------------------------------- the types
\* T::Time: a finite carrier; T::Time::default() is TimeDefault.
Time == 0..MaxTime
TimeDefault == 0
\* Proposal<T, T::Part>: opaque, transported by value.
Proposal == 1..MaxProposal
\* The values of the test map (Map<P, u64>).
Value == 1..MaxVal

\* GreaterEqual for T::Time: every reflexive relation over Time under which
\* the default element is the bottom.
GeRelations ==
    {r \in [Time \X Time -> BOOLEAN] :
        \A t \in Time : r[<<t, t>>] /\ r[<<t, TimeDefault>>]}

\* The usual order on the integers, as one Time relation.
NatGe == [p \in Time \X Time |-> p[1] >= p[2]]

\* Option<Accepted<T>>
None == [some |-> FALSE]
Some(t, p) == [some |-> TRUE, accept_time |-> t, proposal |-> p]

\* The record of accept times: off, or the set of times accepted so far.
NotRecording == [on |-> FALSE]
Recording(times) == [on |-> TRUE, times |-> times]

\* No maximals() iterator is alive (it borrows the map, so none survives an
\* insert or a remove).
NoIter == [some |-> FALSE]

\* Map::new(): an empty HashMap.
MapNew == [k \in {} |-> 0]

\* The keys inserted by tests::test_map_maximals and struct P's relation.
TestKeys == {2, 3, 6, 9}
ModGe == [p \in TestKeys \X TestKeys |-> p[1] % p[2] = 0]
ModType == [keys |-> TestKeys, ge |-> ModGe]

\* A key type with three values and an arbitrary GreaterEqual implementation.
GenKeys == {2, 3, 6}
GenTypes == {[keys |-> GenKeys, ge |-> r] : r \in [GenKeys \X GenKeys -> BOOLEAN]}
KeyTypes == {ModType} \cup GenTypes

VARIABLES
    ge,        \* the GreaterEqual implementation of T::Time
    store,     \* Acceptor::store
    time,      \* Acceptor::time
    accepted,  \* Acceptor::accepted
    call,      \* the handler call handled last, with its arguments
    ret,       \* what that call returned
    accept_log, \* when recording: the times of the phase-2 requests accepted so far
    ktype,     \* the key type K of the Map and its GreaterEqual implementation
    inner,     \* Map::inner
    yielded    \* the items the live maximals() iterator produced, in order

vars == <<ge, store, time, accepted, call, ret, accept_log, ktype, inner, yielded>>

\* ------------------------------------------------------------ Acceptor
\* Acceptor::validate
validate == accepted.some => ge[<<time, accepted.accept_time>>]

\* Variant: the copy leaves the accepted value out.
clone_WithoutAccepted == [store |-> store', time |-> time', accepted |-> None]

\* Acceptor::clone, taken of the state after the call.
clone == [store |-> store', time |-> time', accepted |-> accepted']

\* Variant: the candidate time is returned as the prior time.
handle_phase1_request_ReturnsCandidate(candidate) ==
    LET now == time
    IN  /\ time' = IF ge[<<now, time>>] THEN now ELSE time
        /\ UNCHANGED <<store, accepted>>
        /\ ret' = [prior |-> candidate, snapshot |-> clone]

\* Variant: the candidate time is taken over without the comparison.
handle_phase1_request_AlwaysAdvances(candidate) ==
    /\ time' = candidate
    /\ UNCHANGED <<store, accepted>>
    /\ ret' = [prior |-> time, snapshot |-> clone]

\* Acceptor::handle_phase1_request. The parameter is rebound to self.time
\* before it is compared.
handle_phase1_request(candidate) ==
    LET now == time
    IN  /\ time' = IF ge[<<now, time>>] THEN now ELSE time
        /\ UNCHANGED <<store, accepted>>
        /\ ret' = [prior |-> now, snapshot |-> clone]

\* Variant: the guard of the revert is inverted.
handle_phase1_revert_request_Inverted(now, prev) ==
    IF now /= time
    THEN /\ time' = prev
         /\ UNCHANGED <<store, accepted>>
         /\ ret' = [ok |-> TRUE]
    ELSE /\ UNCHANGED <<store, time, accepted>>
         /\ ret' = [ok |-> FALSE]

\* Variant: the revert compares by order-equality instead of ==.
handle_phase1_revert_request_OrderEqual(now, prev) ==
    IF ge[<<now, time>>] /\ ge[<<time, now>>]
    THEN /\ time' = prev
         /\ UNCHANGED <<store, accepted>>
         /\ ret' = [ok |-> TRUE]
    ELSE /\ UNCHANGED <<store, time, accepted>>
         /\ ret' = [ok |-> FALSE]

\* Variant: a successful revert also forgets the accepted value.
handle_phase1_revert_request_ClearsAccepted(now, prev) ==
    IF now = time
    THEN /\ time' = prev
         /\ accepted' = None
         /\ UNCHANGED store
         /\ ret' = [ok |-> TRUE]
    ELSE /\ UNCHANGED <<store, time, accepted>>
         /\ ret' = [ok |-> FALSE]

\* Variant: the revert fires as soon as now is greater_equal to the time.
handle_phase1_revert_request_OneSided(now, prev) ==
    IF ge[<<now, time>>]
    THEN /\ time' = prev
         /\ UNCHANGED <<store, accepted>>
         /\ ret' = [ok |-> TRUE]
    ELSE /\ UNCHANGED <<store, time, accepted>>
         /\ ret' = [ok |-> FALSE]

\* Variant: the revert refuses a prev the accepted time is not covered by.
handle_phase1_revert_request_Guarded(now, prev) ==
    IF now = time /\ (accepted.some => ge[<<prev, accepted.accept_time>>])
    THEN /\ time' = prev
         /\ UNCHANGED <<store, accepted>>
         /\ ret' = [ok |-> TRUE]
    ELSE /\ UNCHANGED <<store, time, accepted>>
         /\ ret' = [ok |-> FALSE]

\* Acceptor::handle_phase1_revert_request
handle_phase1_revert_request(now, prev) ==
    IF now = time
    THEN /\ time' = prev
         /\ UNCHANGED <<store, accepted>>
         /\ ret' = [ok |-> TRUE]
    ELSE /\ UNCHANGED <<store, time, accepted>>
         /\ ret' = [ok |-> FALSE]

\* Variant: an already accepted value is kept instead of replaced.
handle_phase2_request_KeepsFirst(t, proposal) ==
    IF ge[<<t, time>>]
    THEN /\ time' = t
         /\ accepted' = IF accepted.some THEN accepted ELSE Some(t, proposal)
         /\ UNCHANGED store
         /\ ret' = [ok |-> TRUE]
    ELSE /\ UNCHANGED <<store, time, accepted>>
         /\ ret' = [ok |-> FALSE]

\* Variant: a rejected request still moves the time.
handle_phase2_request_RejectAdvances(t, proposal) ==
    IF ge[<<t, time>>]
    THEN /\ time' = t
         /\ accepted' = Some(t, proposal)
         /\ UNCHANGED store
         /\ ret' = [ok |-> TRUE]
    ELSE /\ time' = t
         /\ UNCHANGED <<store, accepted>>
         /\ ret' = [ok |-> FALSE]

\* Variant: the request is accepted whatever its time.
handle_phase2_request_NoGuard(t, proposal) ==
    /\ time' = t
    /\ accepted' = Some(t, proposal)
    /\ UNCHANGED store
    /\ ret' = [ok |-> TRUE]

\* Variant: an accepted proposal is also inserted into the store.
handle_phase2_request_Stores(t, proposal) ==
    IF ge[<<t, time>>]
    THEN /\ time' = t
         /\ accepted' = Some(t, proposal)
         /\ store' = [k \in DOMAIN store \cup {t} |-> IF k = t THEN proposal ELSE store[k]]
         /\ ret' = [ok |-> TRUE]
    ELSE /\ UNCHANGED <<store, time, accepted>>
         /\ ret' = [ok |-> FALSE]

\* Variant: the accepted value is recorded but the time is not moved.
handle_phase2_request_StaleTime(t, proposal) ==
    IF ge[<<t, time>>]
    THEN /\ accepted' = Some(t, proposal)
         /\ UNCHANGED <<store, time>>
         /\ ret' = [ok |-> TRUE]
    ELSE /\ UNCHANGED <<store, time, accepted>>
         /\ ret' = [ok |-> FALSE]

\* Variant: the request is rejected only when the time dominates its time.
handle_phase2_request_AcceptsIncomparable(t, proposal) ==
    IF ge[<<t, time>>] \/ ~ge[<<time, t>>]
    THEN /\ time' = t
         /\ accepted' = Some(t, proposal)
         /\ UNCHANGED store
         /\ ret' = [ok |-> TRUE]
    ELSE /\ UNCHANGED <<store, time, accepted>>
         /\ ret' = [ok |-> FALSE]

\* Acceptor::handle_phase2_request
handle_phase2_request(t, proposal) ==
    IF ge[<<t, time>>]
    THEN /\ time' = t
         /\ accepted' = Some(t, proposal)
         /\ UNCHANGED store
         /\ ret' = [ok |-> TRUE]
    ELSE /\ UNCHANGED <<store, time, accepted>>
         /\ ret' = [ok |-> FALSE]

\* A revert request is the undo of the phase-1 request handled just before it
\* when it carries the acceptor's time after that request and the prior time
\* that request returned.
undoes_phase1(now, prev) ==
    /\ call.op = "phase1"
    /\ now = time
    /\ prev = ret.prior

Phase1 ==
    \E now \in Time :
        /\ handle_phase1_request(now)
        /\ call' = [op |-> "phase1", now |-> now]
        /\ UNCHANGED <<ge, accept_log, ktype, inner, yielded>>

Phase1Revert ==
    \E now \in Time, prev \in Time :
        /\ handle_phase1_revert_request(now, prev)
        /\ call' = [op |-> "revert", now |-> now, prev |-> prev,
                     undoes_phase1 |-> undoes_phase1(now, prev)]
        /\ UNCHANGED <<ge, accept_log, ktype, inner, yielded>>

Phase2 ==
    \E t \in Time, proposal \in Proposal :
        /\ handle_phase2_request(t, proposal)
        /\ call' = [op |-> "phase2", t |-> t, proposal |-> proposal]
        /\ accept_log' = IF accept_log.on /\ ret'.ok
                           THEN Recording(accept_log.times \cup {t})
                           ELSE accept_log
        /\ UNCHANGED <<ge, ktype, inner, yielded>>

\* Acceptor::default, for each Time relation.
Init ==
    /\ ge \in GeRelations
    /\ store = MapNew
    /\ time = TimeDefault
    /\ accepted = None
    /\ call = [op |-> "none"]
    /\ ret = [ok |-> FALSE]
    /\ accept_log = NotRecording
    /\ ktype = ModType
    /\ inner = MapNew
    /\ yielded = NoIter

Next == Phase1 \/ Phase1Revert \/ Phase2

Spec == Init /\ [][Next]_vars

\* The acceptor driven by phase-1 and phase-2 requests only.
Phase12Next == Phase1 \/ Phase2

Phase12Spec == Init /\ [][Phase12Next]_vars

\* A revert request that is refused.
RejectedRevert == Phase1Revert /\ ~ret'.ok

\* The acceptor driven by requests none of which is a successful revert, with
\* the accept times recorded.
NoRevertInit ==
    /\ ge \in GeRelations
    /\ store = MapNew
    /\ time = TimeDefault
    /\ accepted = None
    /\ call = [op |-> "none"]
    /\ ret = [ok |-> FALSE]
    /\ accept_log = Recording({})
    /\ ktype = ModType
    /\ inner = MapNew
    /\ yielded = NoIter

NoRevertNext == Phase1 \/ RejectedRevert \/ Phase2

NoRevertSpec == NoRevertInit /\ [][NoRevertNext]_vars

\* ------------------------------------------------------------------ Map
\* Variant: a key is dropped as soon as any other key is greater_equal to it.
is_maximal_NoTies(k1) ==
    \A k2 \in DOMAIN inner :
        IF ktype.ge[<<k2, k1>>] THEN k1 = k2 ELSE TRUE

\* Variant: the two sides of the comparison are swapped.
is_maximal_Swapped(k1) ==
    \A k2 \in DOMAIN inner :
        IF ktype.ge[<<k1, k2>>] THEN ktype.ge[<<k2, k1>>] ELSE TRUE

\* Variant: the closure uses any() where the code uses all().
is_maximal_Any(k1) ==
    \E k2 \in DOMAIN inner :
        IF ktype.ge[<<k2, k1>>] THEN ktype.ge[<<k1, k2>>] ELSE TRUE

\* The closure of Map::maximals: k1 is kept when every key k2 of the map
\* that is greater_equal to k1 has k1 greater_equal to it.
is_maximal(k1) ==
    \A k2 \in DOMAIN inner :
        IF ktype.ge[<<k2, k1>>] THEN ktype.ge[<<k1, k2>>] ELSE TRUE

\* Variant: only the first maximal entry met is produced.
maximals_FirstOnly(iter_order) ==
    LET entries == [i \in DOMAIN iter_order |-> <<iter_order[i], inner[iter_order[i]]>>]
        keep(e) == is_maximal(e[1])
        kept == SelectSeq(entries, keep)
    IN  IF kept = << >> THEN kept ELSE <<Head(kept)>>

\* Map::maximals: the filter over inner.iter(), which visits the entries in
\* the order iter_order (a HashMap's iteration order is unspecified).
maximals(iter_order) ==
    LET entries == [i \in DOMAIN iter_order |-> <<iter_order[i], inner[iter_order[i]]>>]
        keep(e) == is_maximal(e[1])
    IN  SelectSeq(entries, keep)

\* The orders in which a HashMap may visit its keys.
IterOrders(m) ==
    {s \in [1..Cardinality(DOMAIN m) -> DOMAIN m] :
        \A i, j \in DOMAIN s : i /= j => s[i] /= s[j]}

\* Map::insert
insert(key, value) ==
    inner' = [k \in DOMAIN inner \cup {key} |-> IF k = key THEN value ELSE inner[k]]

\* Map::remove
remove(key) ==
    inner' = [k \in DOMAIN inner \ {key} |-> inner[k]]

Insert ==
    \E key \in ktype.keys, value \in Value :
        /\ insert(key, value)
        /\ yielded' = NoIter
        /\ UNCHANGED <<ktype, ge, store, time, accepted, call, ret, accept_log>>

Remove ==
    \E key \in ktype.keys :
        /\ remove(key)
        /\ yielded' = NoIter
        /\ UNCHANGED <<ktype, ge, store, time, accepted, call, ret, accept_log>>

Maximals ==
    \E iter_order \in IterOrders(inner) :
        /\ yielded' = [some |-> TRUE, items |-> maximals(iter_order)]
        /\ UNCHANGED <<inner, ktype, ge, store, time, accepted, call, ret, accept_log>>

MapInit ==
    /\ ktype \in KeyTypes
    /\ inner = MapNew
    /\ yielded = NoIter
    /\ ge = NatGe
    /\ store = MapNew
    /\ time = TimeDefault
    /\ accepted = None
    /\ call = [op |-> "none"]
    /\ ret = [ok |-> FALSE]
    /\ accept_log = NotRecording

MapNext == Insert \/ Remove \/ Maximals

MapSpec == MapInit /\ [][MapNext]_vars

\* ============================================================== claims
\* Abbreviations used by the claims below.
IsPhase1Step == call'.op = "phase1"
IsRevertStep == call'.op = "revert"
IsPhase2Step == call'.op = "phase2"

\* C1: in every state reachable through the three handlers, if accepted is
\* Some then time is greater_equal to accepted.accept_time.
C1_ValidateAlways ==
    accepted.some => ge[<<time, accepted.accept_time>>]

\* C2: a phase-1 request whose candidate is greater_equal to the acceptor's
\* time leaves the acceptor's time, and the time of the returned snapshot,
\* equal to the candidate.
C2_Phase1Advances ==
    [][(IsPhase1Step /\ ge[<<call'.now, time>>])
         => (time' = call'.now /\ ret'.snapshot.time = call'.now)]_vars

\* C3: a phase-2 request whose time is greater_equal to the acceptor's time
\* returns true, sets time to it and replaces accepted by exactly
\* {accept_time: t, proposal}.
C3_Phase2Accepts ==
    [][(IsPhase2Step /\ ge[<<call'.t, time>>])
         => /\ ret'.ok
            /\ time' = call'.t
            /\ accepted' = Some(call'.t, call'.proposal)]_vars

C3_Witness ==
    /\ call.op = "phase2"
    /\ ret.ok
    /\ call.t /= TimeDefault
    /\ accepted = Some(call.t, call.proposal)

\* C4: a phase-2 request whose time is not greater_equal to the acceptor's
\* time returns false and leaves time, accepted and store unchanged.
C4_Phase2Rejects ==
    [][(IsPhase2Step /\ ~ge[<<call'.t, time>>])
         => /\ ~ret'.ok
            /\ UNCHANGED <<time, accepted, store>>]_vars

C4_Witness ==
    /\ call.op = "phase2"
    /\ ~ret.ok
    /\ ~ge[<<call.t, time>>]
    /\ accepted.some

\* C5: a revert request handled right after a phase-1 request, carrying the
\* acceptor's time after that request and the prior time it returned, returns
\* true and leaves time equal to that prior time.
C5_RevertUndoesPhase1 ==
    [][(call.op = "phase1" /\ IsRevertStep
          /\ call'.now = time /\ call'.prev = ret.prior)
         => (ret'.ok /\ time' = ret.prior)]_vars

C5_Witness ==
    /\ call.op = "revert"
    /\ call.undoes_phase1
    /\ ret.ok
    /\ time = call.prev
    /\ time /= TimeDefault

\* C6: a revert request whose now differs from the acceptor's time returns
\* false and leaves time, accepted and store unchanged.
C6_RevertRejects ==
    [][(IsRevertStep /\ call'.now /= time)
         => /\ ~ret'.ok
            /\ UNCHANGED <<time, accepted, store>>]_vars

C6_Witness ==
    /\ call.op = "revert"
    /\ ~ret.ok
    /\ call.now /= time
    /\ accepted.some

\* The keys no other key of the map strictly dominates.
NotDominated ==
    {k1 \in DOMAIN inner :
        ~ \E k2 \in DOMAIN inner :
            ktype.ge[<<k2, k1>>] /\ ~ktype.ge[<<k1, k2>>]}

YieldedKeys == {yielded.items[i][1] : i \in DOMAIN yielded.items}

\* C7: maximals() yields exactly the entries whose key no key of the store
\* strictly dominates, each once and with its own value; under the modulo
\* relation the keys {2,3,6} give {6} and {2,3,6,9} give {6,9}.
C7_MaximalsExact ==
    yielded.some =>
        /\ {yielded.items[i] : i \in DOMAIN yielded.items}
              = {<<k, inner[k]>> : k \in NotDominated}
        /\ Len(yielded.items) = Cardinality(NotDominated)
        /\ (ktype = ModType /\ DOMAIN inner = {2, 3, 6}) => YieldedKeys = {6}
        /\ (ktype = ModType /\ DOMAIN inner = {2, 3, 6, 9}) => YieldedKeys = {6, 9}

C7_Witness ==
    /\ yielded.some
    /\ ktype = ModType
    /\ DOMAIN inner = {2, 3, 6, 9}
    /\ YieldedKeys = {6, 9}
    /\ inner[6] /= inner[9]

\* C8: after every phase-1 or phase-2 request, successful or not, the
\* acceptor's time is greater_equal to its time before the request; only a
\* revert request may leave a time that is not.
C8_TimeMonotoneExceptRevert ==
    [][(IsPhase1Step \/ IsPhase2Step) => ge[<<time', time>>]]_vars

C8_Witness ==
    /\ call.op = "phase2"
    /\ ret.ok
    /\ time = call.t
    /\ time /= TimeDefault
    /\ ~ge[<<TimeDefault, time>>]

\* C9: accepted changes only in a successful phase-2 request, and once it is
\* Some it is never None again.
C9_AcceptedOnlyByPhase2 ==
    [][/\ (accepted' /= accepted) => (IsPhase2Step /\ ret'.ok)
       /\ accepted.some => accepted'.some]_vars

C9_Witness ==
    /\ call.op = "revert"
    /\ ret.ok
    /\ accepted.some
    /\ time /= accepted.accept_time

\* C10: the time returned first by a phase-1 request is the acceptor's time
\* right before the request, whatever the candidate.
C10_Phase1ReturnsPriorTime ==
    [][IsPhase1Step => ret'.prior = time]_vars

C10_Witness ==
    /\ call.op = "phase1"
    /\ ret.prior = time
    /\ ret.prior /= call.now
    /\ ret.prior /= TimeDefault

\* C11: the snapshot a phase-1 request returns has the store, time and
\* accepted of the acceptor as they are right after the request.
C11_SnapshotIsStateAfter ==
    call.op = "phase1" =>
        /\ ret.snapshot.store = store
        /\ ret.snapshot.time = time
        /\ ret.snapshot.accepted = accepted

C11_Witness ==
    /\ call.op = "phase1"
    /\ accepted.some
    /\ ret.snapshot = [store |-> store, time |-> time, accepted |-> accepted]

\* C12: a phase-1 request whose candidate is not greater_equal to the
\* acceptor's time leaves time, accepted and store unchanged.
C12_Phase1KeepsTime ==
    [][(IsPhase1Step /\ ~ge[<<call'.now, time>>])
         => UNCHANGED <<time, accepted, store>>]_vars

C12_Witness ==
    /\ call.op = "phase1"
    /\ ~ge[<<call.now, time>>]
    /\ ret.prior = time

\* Two distinct time values each greater_equal to the other.
OrderEqualDistinct(a, b) == a /= b /\ ge[<<a, b>>] /\ ge[<<b, a>>]

\* C13: a revert request returns true, and then sets time to prev, exactly
\* when now == time; a now that is only order-equal to the time is refused and
\* the time is kept.
C13_RevertByValueEquality ==
    [][IsRevertStep
         => /\ ret'.ok <=> (call'.now = time)
            /\ ret'.ok => time' = call'.prev
            /\ ~ret'.ok => time' = time
            /\ OrderEqualDistinct(call'.now, time) => (~ret'.ok /\ time' = time)]_vars

C13_Witness ==
    /\ call.op = "revert"
    /\ ~ret.ok
    /\ OrderEqualDistinct(call.now, time)
    /\ call.prev /= time

\* C14: a revert request whose now equals the time returns true and sets time
\* to prev whatever accepted holds, and accepted stays; so a state with the
\* highest accept time and the bottom time is reached under the integer order.
C14_RevertIgnoresAccepted ==
    [][(IsRevertStep /\ call'.now = time)
         => /\ ret'.ok
            /\ time' = call'.prev
            /\ accepted' = accepted]_vars

C14_Witness ==
    /\ ge = NatGe
    /\ call = [op |-> "revert", now |-> MaxTime, prev |-> TimeDefault,
               undoes_phase1 |-> FALSE]
    /\ ret.ok
    /\ time = TimeDefault
    /\ accepted = Some(MaxTime, 1)

\* Properties of the key relation over the key type.
KeyReflexive == \A a \in ktype.keys : ktype.ge[<<a, a>>]
KeyTransitive ==
    \A a, b, c \in ktype.keys :
        (ktype.ge[<<a, b>>] /\ ktype.ge[<<b, c>>]) => ktype.ge[<<a, c>>]
KeyAntisymmetric ==
    \A a, b \in ktype.keys : (ktype.ge[<<a, b>>] /\ ktype.ge[<<b, a>>]) => a = b
KeyTotal == \A a, b \in ktype.keys : ktype.ge[<<a, b>>] \/ ktype.ge[<<b, a>>]

\* The keys of the store that are greater_equal to every key of the store.
HighestKeys == {k \in DOMAIN inner : \A k2 \in DOMAIN inner : ktype.ge[<<k, k2>>]}

\* C15: under a total relation (reflexive, transitive, every pair comparable)
\* maximals() on a non-empty store yields the entries whose key is
\* order-equal to the highest key; when the relation is also antisymmetric
\* that is one entry, the one with the highest key.
C15_TotalOrderMaximals ==
    (yielded.some /\ DOMAIN inner /= {} /\ KeyReflexive /\ KeyTransitive /\ KeyTotal)
        => /\ HighestKeys /= {}
           /\ YieldedKeys = HighestKeys
           /\ Len(yielded.items) = Cardinality(HighestKeys)
           /\ KeyAntisymmetric => Len(yielded.items) = 1

C15_Witness ==
    /\ yielded.some
    /\ KeyReflexive /\ KeyTransitive /\ KeyTotal /\ ~KeyAntisymmetric
    /\ Cardinality(DOMAIN inner) = 3
    /\ Len(yielded.items) = 2
    /\ YieldedKeys = HighestKeys

\* C16: no handler modifies the store: it is empty in every state reached
\* through the three handlers.
C16_StoreUntouched ==
    store = MapNew

C16_Witness ==
    /\ call.op = "revert"
    /\ ret.ok
    /\ accepted.some
    /\ time /= accepted.accept_time
    /\ store = MapNew

\* The Time relation is transitive (it is reflexive by construction).
TimeTransitive ==
    \A a, b, c \in Time : (ge[<<a, b>>] /\ ge[<<b, c>>]) => ge[<<a, c>>]

\* C17: under a reflexive and transitive Time relation, in every state
\* reached by phase-1 and phase-2 requests only, accepted being Some implies
\* that time is greater_equal to accepted.accept_time.
C17_ValidateWithoutRevert ==
    TimeTransitive => (accepted.some => ge[<<time, accepted.accept_time>>])

C17_Witness ==
    /\ TimeTransitive
    /\ call.op = "phase1"
    /\ accepted.some
    /\ ~ge[<<TimeDefault, accepted.accept_time>>]
    /\ ge[<<time, accepted.accept_time>>]

\* C18: under a reflexive and transitive Time relation, with no successful
\* revert, the time of every accepted phase-2 request is greater_equal to the
\* time of every phase-2 request accepted before it.
C18_AcceptTimesNonDecreasing ==
    [][(IsPhase2Step /\ ret'.ok /\ TimeTransitive)
         => \A t1 \in accept_log.times : ge[<<call'.t, t1>>]]_vars

C18_Witness ==
    /\ TimeTransitive
    /\ call.op = "phase2"
    /\ ret.ok
    /\ Cardinality(accept_log.times) = MaxTime + 1
    /\ \E t1 \in accept_log.times : ~ge[<<t1, call.t>>]

\* C19: of two distinct keys maximals() yields, neither strictly dominates
\* the other: they are incomparable or order-equal.
C19_YieldedPairwiseUndominated ==
    yielded.some =>
        \A i, j \in DOMAIN yielded.items :
            LET k1 == yielded.items[i][1]
                k2 == yielded.items[j][1]
            IN  k1 /= k2 =>
                    \/ (~ktype.ge[<<k1, k2>>] /\ ~ktype.ge[<<k2, k1>>])
                    \/ (ktype.ge[<<k1, k2>>] /\ ktype.ge[<<k2, k1>>])

C19_Witness ==
    /\ yielded.some
    /\ Len(yielded.items) = 3
    /\ \E k1, k2 \in YieldedKeys :
          k1 /= k2 /\ ktype.ge[<<k1, k2>>] /\ ktype.ge[<<k2, k1>>]
    /\ \E k1, k2 \in YieldedKeys :
          k1 /= k2 /\ ~ktype.ge[<<k1, k2>>] /\ ~ktype.ge[<<k2, k1>>]

\* C20: for a non-empty store under a reflexive and transitive key relation,
\* maximals() yields at least one entry and every key it does not yield has
\* a yielded key greater_equal to it.
C20_MaximalsCoverStore ==
    (yielded.some /\ DOMAIN inner /= {} /\ KeyReflexive /\ KeyTransitive)
        => /\ Len(yielded.items) >= 1
           /\ \A k \in DOMAIN inner \ YieldedKeys :
                 \E m \in YieldedKeys : ktype.ge[<<m, k>>]

C20_Witness ==
    /\ yielded.some
    /\ KeyReflexive /\ KeyTransitive
    /\ ktype /= ModType
    /\ Cardinality(YieldedKeys) = 2
    /\ DOMAIN inner \ YieldedKeys /= {}
    /\ \A k \in DOMAIN inner \ YieldedKeys :
          \E m \in YieldedKeys : ktype.ge[<<m, k>>]

====
